---------------------------- MODULE Spec2Model ----------------------------
(***************************************************************************)
(* Model of build.rs: the OpenAPI patching pipeline of cloudflare-api.     *)
(*                                                                         *)
(* main parses the downloaded schema into a serde_json::Value, adds the    *)
(* missing operationIds under paths, then runs simplify_schema on every    *)
(* value of components.schemas.  simplify_schema folds allOf members into  *)
(* an accumulator with merge_into.                                         *)
(*                                                                         *)
(* A serde_json::Value v is a pair <<tag, content>>: v[1] is the tag and   *)
(* v[2] the content:                                                       *)
(*   "obj"  a function from keys to Values (key order is not modelled: no  *)
(*          code path depends on it)                                       *)
(*   "arr"  a sequence of Values                                           *)
(*   "str"  a sequence of one-character strings                            *)
(*   "num"  an integer,  "bool" a BOOLEAN,  "null"                         *)
(* The keys of an object are strings, except those of paths, which are     *)
(* character sequences since the code takes them apart.                    *)
(***************************************************************************)
EXTENDS Integers, Sequences, FiniteSets, TLC

VARIABLES schema_content, spec_value, pc, all_of, merged, idx

vars == <<schema_content, spec_value, pc, all_of, merged, idx>>

(***************************************************************************)
(* serde_json::Value                                                       *)
(***************************************************************************)
Obj(f) == <<"obj", f>>
Arr(s) == <<"arr", s>>
Str(s) == <<"str", s>>
Num(n) == <<"num", n>>
Bool(b) == <<"bool", b>>
Null == <<"null", FALSE>>

EmptyMap == <<>>

is_object(v) == v[1] = "obj"
is_array(v) == v[1] = "arr"

\* Value::get(key).is_some(): only an object has keys.
Has(v, k) == is_object(v) /\ k \in DOMAIN v[2]

\* Value::get(key) where Has(v, k).
Get(v, k) == v[2][k]

\* Map::insert on the object v.
Insert(v, k, x) == Obj([j \in DOMAIN v[2] \cup {k} |-> IF j = k THEN x ELSE v[2][j]])

\* Map::remove on the object v.
Remove(v, k) == Obj([j \in DOMAIN v[2] \ {k} |-> v[2][j]])

\* Vec::contains
Contains(s, x) == \E i \in 1..Len(s) : s[i] = x

(***************************************************************************)
(* String literals of the code, as character sequences.                    *)
(***************************************************************************)
ObjectLit == <<"o", "b", "j", "e", "c", "t">>
StringLit == <<"s", "t", "r", "i", "n", "g">>

(***************************************************************************)
(* merge_into(target, source)                                              *)
(***************************************************************************)
\* Mutant of MergeProperties: a property the target already has is kept.
MergeProperties_FirstWins(target, source) ==
    IF /\ Has(source, "properties") /\ is_object(Get(source, "properties"))
       /\ Has(target, "properties") /\ is_object(Get(target, "properties"))
    THEN LET sp == Get(source, "properties")[2]
             tp == Get(target, "properties")[2]
         IN Insert(target, "properties",
                   Obj([k \in DOMAIN tp \cup DOMAIN sp |->
                           IF k \in DOMAIN tp THEN tp[k] ELSE sp[k]]))
    ELSE target

\* Lines 185-192: every property of the source is inserted (overwriting).
MergeProperties(target, source) ==
    IF /\ Has(source, "properties") /\ is_object(Get(source, "properties"))
       /\ Has(target, "properties") /\ is_object(Get(target, "properties"))
    THEN LET sp == Get(source, "properties")[2]
             tp == Get(target, "properties")[2]
         IN Insert(target, "properties",
                   Obj([k \in DOMAIN tp \cup DOMAIN sp |->
                           IF k \in DOMAIN sp THEN sp[k] ELSE tp[k]]))
    ELSE target

\* Lines 201-205: push each item the target list does not hold yet.
RECURSIVE PushMissing(_, _)
PushMissing(target_req, source_required) ==
    IF source_required = <<>> THEN target_req
    ELSE LET item == Head(source_required)
         IN PushMissing(IF Contains(target_req, item) THEN target_req
                        ELSE Append(target_req, item),
                        Tail(source_required))

\* Lines 194-207: entry("required").or_insert([]) then the pushes, when the
\* entry is an array.
MergeRequired(target, source) ==
    IF Has(source, "required") /\ is_array(Get(source, "required")) /\ is_object(target)
    THEN LET t1 == IF Has(target, "required") THEN target
                   ELSE Insert(target, "required", Arr(<<>>))
         IN IF is_array(Get(t1, "required"))
            THEN Insert(t1, "required",
                        Arr(PushMissing(Get(t1, "required")[2],
                                        Get(source, "required")[2])))
            ELSE t1
    ELSE target

\* Lines 209-218: every other key is copied when the target lacks it.
CopyOtherFields(target, source) ==
    IF is_object(source) /\ is_object(target)
    THEN LET new == {k \in DOMAIN source[2] :
                        k # "properties" /\ k # "required" /\ k \notin DOMAIN target[2]}
         IN Obj([k \in DOMAIN target[2] \cup new |->
                    IF k \in DOMAIN target[2] THEN target[2][k] ELSE source[2][k]])
    ELSE target

\* Mutant of SkipSource: only a node holding nothing but $ref is skipped.
SkipSource_BareOnly(source) == is_object(source) /\ DOMAIN source[2] = {"$ref"}

\* Lines 180-183: the guard that skips a source.
SkipSource(source) == Has(source, "$ref")

merge_into(target, source) ==
    IF SkipSource(source) THEN target
    ELSE CopyOtherFields(MergeRequired(MergeProperties(target, source), source), source)

(***************************************************************************)
(* simplify_schema(schema)                                                 *)
(***************************************************************************)
\* Lines 117-120: the fresh accumulator.
NewMerged == Obj(("type" :> Str(ObjectLit)) @@ ("properties" :> Obj(EmptyMap)))

\* Lines 123-125: fold the items in list order.
RECURSIVE MergeAll(_, _)
MergeAll(acc, items) ==
    IF items = <<>> THEN acc
    ELSE MergeAll(merge_into(acc, Head(items)), Tail(items))

\* Mutant of NormalizeEnum: format is left on the enum node.
NormalizeEnum_KeepsFormat(schema) ==
    IF Has(schema, "enum")
    THEN LET o == Remove(Remove(Remove(schema, "maxLength"), "minLength"), "pattern")
         IN IF "type" \in DOMAIN o[2] THEN o ELSE Insert(o, "type", Str(StringLit))
    ELSE schema

\* Lines 101-113.
NormalizeEnum(schema) ==
    IF Has(schema, "enum")
    THEN LET o == Remove(Remove(Remove(Remove(schema, "maxLength"), "minLength"),
                                "pattern"), "format")
         IN IF "type" \in DOMAIN o[2] THEN o ELSE Insert(o, "type", Str(StringLit))
    ELSE schema

\* Line 128.
MergedIsUseful(m) ==
    Has(m, "properties") /\ is_object(Get(m, "properties"))
        /\ DOMAIN Get(m, "properties")[2] # {}

\* Mutant of FindConcrete: the first member, reference or not.
FindConcrete_FirstMember(items) ==
    IF items = <<>> THEN Obj("type" :> Str(ObjectLit)) ELSE Head(items)

\* Lines 132-135.
RECURSIVE FindConcrete(_)
FindConcrete(items) ==
    IF items = <<>> THEN Obj("type" :> Str(ObjectLit))
    ELSE IF ~Has(Head(items), "$ref") THEN Head(items)
    ELSE FindConcrete(Tail(items))

\* Lines 127-137: what replaces a node with an allOf list.
AllOfReplacement(items) ==
    LET m == MergeAll(NewMerged, items)
    IN IF MergedIsUseful(m) THEN m ELSE FindConcrete(items)

\* Mutant of FirstOption: the last option.
FirstOption_Last(options) == options[Len(options)]

\* Lines 146 and 154: one_of.first().
FirstOption(options) == options[1]

\* schema.get(key).and_then(as_array) is Some
HasList(schema, key) == Has(schema, key) /\ is_array(Get(schema, key))

RECURSIVE simplify_schema(_)
\* Lines 161-176 on a node that no composition rule replaced.
SimplifyNested(schema) ==
    LET s1 == IF Has(schema, "properties") /\ is_object(Get(schema, "properties"))
              THEN LET p == Get(schema, "properties")[2]
                   IN Insert(schema, "properties",
                             Obj([k \in DOMAIN p |-> simplify_schema(p[k])]))
              ELSE schema
        s2 == IF Has(s1, "items")
              THEN Insert(s1, "items", simplify_schema(Get(s1, "items")))
              ELSE s1
    IN IF Has(s2, "additionalProperties") /\ is_object(Get(s2, "additionalProperties"))
       THEN Insert(s2, "additionalProperties",
                   simplify_schema(Get(s2, "additionalProperties")))
       ELSE s2

simplify_schema(schema) ==
    LET s == NormalizeEnum(schema)
    IN IF HasList(s, "allOf")
       THEN simplify_schema(AllOfReplacement(Get(s, "allOf")[2]))
       ELSE IF HasList(s, "oneOf") /\ Get(s, "oneOf")[2] # <<>>
       THEN simplify_schema(FirstOption(Get(s, "oneOf")[2]))
       ELSE IF HasList(s, "anyOf") /\ Get(s, "anyOf")[2] # <<>>
       THEN simplify_schema(FirstOption(Get(s, "anyOf")[2]))
       ELSE SimplifyNested(s)

(***************************************************************************)
(* main, lines 25-57: add the missing operation IDs                        *)
(***************************************************************************)
\* Line 31: the keys of a path item that name an operation.
Methods == {"get", "put", "post", "delete", "options", "head", "patch", "trace"}

\* The characters of a method key, as format! writes them (line 40).
MethodChars(method) ==
    CASE method = "get" -> <<"g", "e", "t">>
      [] method = "put" -> <<"p", "u", "t">>
      [] method = "post" -> <<"p", "o", "s", "t">>
      [] method = "delete" -> <<"d", "e", "l", "e", "t", "e">>
      [] method = "options" -> <<"o", "p", "t", "i", "o", "n", "s">>
      [] method = "head" -> <<"h", "e", "a", "d">>
      [] method = "patch" -> <<"p", "a", "t", "c", "h">>
      [] method = "trace" -> <<"t", "r", "a", "c", "e">>

\* str::trim_start_matches(c): every leading c is dropped.
RECURSIVE trim_start_matches(_, _)
trim_start_matches(s, c) ==
    IF s # <<>> /\ Head(s) = c THEN trim_start_matches(Tail(s), c) ELSE s

\* str::replace(c, to): every c becomes the string to.
RECURSIVE replace(_, _, _)
replace(s, c, to) ==
    IF s = <<>> THEN <<>>
    ELSE (IF Head(s) = c THEN to ELSE <<Head(s)>>) \o replace(Tail(s), c, to)

\* Mutant of PathSlug: '-' is not replaced.
PathSlug_KeepsDashes(path_name) ==
    replace(replace(replace(trim_start_matches(path_name, "/"),
                            "/", <<"_">>),
                    "{", <<>>),
            "}", <<>>)

\* Lines 41-46.
PathSlug(path_name) ==
    replace(replace(replace(replace(trim_start_matches(path_name, "/"),
                                    "/", <<"_">>),
                            "{", <<>>),
                    "}", <<>>),
            "-", <<"_">>)

\* Lines 39-47: format!("{}_{}", method, slug).
OperationId(method, path_name) == MethodChars(method) \o <<"_">> \o PathSlug(path_name)

\* Mutant of NeedsOperationId: every operation is given a synthesized id.
NeedsOperationId_Always(op_obj) == TRUE

\* Line 37: only an operation without an operationId is given one.
NeedsOperationId(op_obj) == ~Has(op_obj, "operationId")

\* Mutant of PatchOperation: an operation that has a string id gets the
\* method prefixed to it.
PatchOperation_PrefixesExisting(method, path_name, operation) ==
    IF method \in Methods /\ is_object(operation)
    THEN IF Has(operation, "operationId")
         THEN IF Get(operation, "operationId")[1] = "str"
              THEN Insert(operation, "operationId",
                          Str(MethodChars(method) \o <<"_">>
                              \o Get(operation, "operationId")[2]))
              ELSE operation
         ELSE Insert(operation, "operationId", Str(OperationId(method, path_name)))
    ELSE operation

\* Lines 29-53: one entry of a path item.
PatchOperation(method, path_name, operation) ==
    IF method \in Methods /\ is_object(operation) /\ NeedsOperationId(operation)
    THEN Insert(operation, "operationId", Str(OperationId(method, path_name)))
    ELSE operation

\* Lines 27-55: one entry of paths.
PatchPathItem(path_name, path_item) ==
    IF is_object(path_item)
    THEN Obj([method \in DOMAIN path_item[2] |->
                 PatchOperation(method, path_name, path_item[2][method])])
    ELSE path_item

\* Lines 26-57.
AddOperationIds(doc) ==
    IF Has(doc, "paths") /\ is_object(Get(doc, "paths"))
    THEN LET paths == Get(doc, "paths")[2]
         IN Insert(doc, "paths",
                   Obj([path_name \in DOMAIN paths |->
                           PatchPathItem(path_name, paths[path_name])]))
    ELSE doc

(***************************************************************************)
(* main, lines 59-66: simplify every named schema                          *)
(***************************************************************************)
SimplifySchemas(doc) ==
    IF Has(doc, "components")
          /\ Has(Get(doc, "components"), "schemas")
          /\ is_object(Get(Get(doc, "components"), "schemas"))
    THEN LET components == Get(doc, "components")
             schemas == Get(components, "schemas")[2]
         IN Insert(doc, "components",
                   Insert(components, "schemas",
                          Obj([name \in DOMAIN schemas |-> simplify_schema(schemas[name])])))
    ELSE doc

(***************************************************************************)
(* Inputs: the documents the parser can hand to the two passes.            *)
(***************************************************************************)
\* Most allOf/oneOf/anyOf members in one list, and most entries of paths.
MaxMembers == 2
MaxPaths == 2
\* Layers of properties/items/additionalProperties put around a schema.
MaxNesting == 1

Word(c) == Str(<<c>>)
IntegerLit == <<"i", "n", "t", "e", "g", "e", "r">>

TString == Obj("type" :> Str(StringLit))
TInteger == Obj("type" :> Str(IntegerLit))
EnumBare ==
    Obj(("enum" :> Arr(<<Word("a")>>)) @@ ("format" :> Word("f")) @@ ("maxLength" :> Num(1))
        @@ ("minLength" :> Num(0)) @@ ("pattern" :> Word("p")))
Ref == Obj("$ref" :> Word("r"))
RefPlus ==
    Obj(("$ref" :> Word("r")) @@ ("description" :> Word("d"))
        @@ ("properties" :> Obj("z" :> TString)) @@ ("required" :> Arr(<<Word("c")>>)))
PropsA ==
    Obj(("properties" :> Obj("x" :> EnumBare)) @@ ("required" :> Arr(<<Word("a")>>)))
PropsB ==
    Obj(("type" :> Str(StringLit)) @@ ("description" :> Word("d"))
        @@ ("properties" :> Obj(("x" :> TInteger)
                                @@ ("y" :> Obj("anyOf" :> Arr(<<EnumBare, TInteger>>)))))
        @@ ("required" :> Arr(<<Word("b"), Word("a")>>)))
Degenerate == Obj(("allOf" :> Word("n")) @@ ("oneOf" :> Arr(<<>>)))

LeafSchemas == {TString, TInteger, EnumBare, Ref, RefPlus, PropsA, PropsB, Degenerate}

\* Sequences over S of length at most n.
SeqsUpTo(S, n) == UNION {[1..k -> S] : k \in 0..n}

\* Keys that may stand beside a composition keyword.
NoSiblings == EmptyMap
Siblings ==
    ("enum" :> Arr(<<Word("a")>>)) @@ ("type" :> Str(IntegerLit)) @@ ("format" :> Word("f"))
    @@ ("properties" :> Obj("x" :> EnumBare))
    @@ ("oneOf" :> Arr(<<TInteger, TString>>)) @@ ("anyOf" :> Arr(<<TString>>))
    @@ ("additionalProperties" :> Bool(TRUE))

Composition(kw, list, sib) == Obj((kw :> Arr(list)) @@ sib)

\* The places a nested schema can stand in.
Places == {"properties", "items", "additionalProperties"}

Wrap(place, s) ==
    CASE place = "properties" ->
            Obj(("type" :> Str(ObjectLit)) @@ ("properties" :> Obj(("p" :> s) @@ ("q" :> EnumBare))))
      [] place = "items" -> Obj(("type" :> Word("t")) @@ ("items" :> s))
      [] place = "additionalProperties" -> Obj("additionalProperties" :> s)

\* s under n layers of the place.
RECURSIVE Nested(_, _, _)
Nested(place, s, n) == IF n = 0 THEN s ELSE Nested(place, Wrap(place, s), n - 1)

\* Path templates.
ZonesPath ==
    <<"/", "z", "o", "n", "e", "s", "/", "{", "z", "o", "n", "e", "_", "i", "d", "}",
      "/", "d", "n", "s", "_", "r", "e", "c", "o", "r", "d", "s">>

PathNames ==
    {<<"/", "a">>, <<"/", "a", "-", "b">>, <<"/", "a", "_", "b">>, <<"/", "a", "/", "b">>,
     <<"/", "/", "a">>, <<"/", "a", "/">>, <<"/", "{", "a", "}">>, ZonesPath}

ListZones == Str(<<"l", "i", "s", "t", "Z", "o", "n", "e", "s">>)
GetAB == Str(<<"g", "e", "t", "_", "a", "_", "b">>)
Parameters == Arr(<<Obj("name" :> Word("n"))>>)

PathItems ==
    {Obj("get" :> Obj(EmptyMap)),
     Obj(("get" :> Obj("summary" :> Word("s"))) @@ ("post" :> Obj(EmptyMap))
         @@ ("parameters" :> Parameters)),
     Obj(("get" :> Obj(("operationId" :> ListZones) @@ ("summary" :> Word("s"))))
         @@ ("post" :> Obj(EmptyMap)) @@ ("parameters" :> Parameters)),
     Obj("get" :> Obj("operationId" :> GetAB)),
     Obj(("GET" :> Obj(EmptyMap)) @@ ("summary" :> Word("s"))
         @@ ("x-meta" :> Obj(EmptyMap)) @@ ("delete" :> Obj(EmptyMap))),
     Obj(("get" :> Word("g")) @@ ("put" :> Obj("operationId" :> Null))
         @@ ("head" :> Obj(EmptyMap))),
     Obj(("options" :> Obj(EmptyMap)) @@ ("patch" :> Obj(EmptyMap))
         @@ ("trace" :> Obj(EmptyMap))),
     Word("i")}

\* The sets of path templates a paths object can have as its keys.
PathSets == {X \in SUBSET PathNames : Cardinality(X) <= MaxPaths}

Info == Obj("title" :> Word("t"))
SomePaths == Obj(<<"/", "a">> :> Obj("get" :> Obj(EmptyMap)))
SomeComponents ==
    Obj(("schemas" :> Obj(("A" :> PropsB) @@ ("B" :> Obj("oneOf" :> Arr(<<TInteger, TString>>)))))
        @@ ("responses" :> Obj("R" :> Obj("allOf" :> Arr(<<TString>>)))))

\* A document around a paths value, and one around a named schema.
PathsDocument(paths) ==
    Obj(("info" :> Info) @@ ("paths" :> paths) @@ ("components" :> SomeComponents))
SchemaDocument(s) ==
    Obj(("info" :> Info) @@ ("paths" :> SomePaths)
        @@ ("components" :> Obj("schemas" :> Obj("S" :> s))))

\* Documents without paths or without named schemas.
OddDocuments ==
    {PathsDocument(Word("p")),
     Obj("info" :> Info),
     Obj(("paths" :> SomePaths) @@ ("components" :> Word("c"))),
     Obj(("paths" :> SomePaths) @@ ("components" :> Obj("schemas" :> Arr(<<PropsA>>)))),
     Obj(("paths" :> SomePaths) @@ ("components" :> Obj("responses" :> Obj(EmptyMap))))}

\* What allOf lists hold, for the merge loop on its own.
MergeSources ==
    LeafSchemas
    \cup {Word("s"),
          Obj(("properties" :> Word("n")) @@ ("required" :> Bool(TRUE)) @@ ("title" :> Word("t"))),
          Obj(("required" :> Arr(<<Word("a"), Word("a"), Word("b")>>)) @@ ("title" :> Word("u")))}

(***************************************************************************)
(* main as a state machine: parsed, then ids added, then simplified.       *)
(***************************************************************************)
Init ==
    /\ \/ \E D \in PathSets : \E items \in [D -> PathItems] :
             schema_content = PathsDocument(Obj(items))
       \/ \E kw \in {"allOf", "oneOf", "anyOf"}, sib \in {NoSiblings, Siblings} :
             \E list \in SeqsUpTo(LeafSchemas, MaxMembers) :
                \E place \in Places, n \in 0..MaxNesting :
                   schema_content = SchemaDocument(Nested(place, Composition(kw, list, sib), n))
       \/ \E s \in LeafSchemas \cup {Word("s"), Bool(TRUE)} :
             \E place \in Places, n \in 0..MaxNesting :
                schema_content = SchemaDocument(Nested(place, s, n))
       \/ schema_content \in OddDocuments
    /\ spec_value = schema_content
    /\ pc = "parsed"
    /\ all_of = <<>>
    /\ merged = NewMerged
    /\ idx = 1

\* Lines 25-57.
AddMissingOperationIds ==
    /\ pc = "parsed"
    /\ spec_value' = AddOperationIds(spec_value)
    /\ pc' = "ids_added"
    /\ UNCHANGED <<schema_content, all_of, merged, idx>>

\* Lines 59-66.
SimplifyAllSchemas ==
    /\ pc = "ids_added"
    /\ spec_value' = SimplifySchemas(spec_value)
    /\ pc' = "simplified"
    /\ UNCHANGED <<schema_content, all_of, merged, idx>>

Next == AddMissingOperationIds \/ SimplifyAllSchemas

Spec == Init /\ [][Next]_vars

(***************************************************************************)
(* The allOf loop of simplify_schema (lines 116-125), one item a step.     *)
(***************************************************************************)
MergeInit ==
    /\ all_of \in SeqsUpTo(MergeSources, MaxMembers)
    /\ merged = NewMerged
    /\ idx = 1
    /\ schema_content = Null
    /\ spec_value = Null
    /\ pc = "allOf"

\* Line 124: merge_into(&mut merged, item).
MergeItem ==
    /\ pc = "allOf"
    /\ idx <= Len(all_of)
    /\ merged' = merge_into(merged, all_of[idx])
    /\ idx' = idx + 1
    /\ UNCHANGED <<schema_content, spec_value, pc, all_of>>

MergeNext == MergeItem

MergeSpec == MergeInit /\ [][MergeNext]_vars

(***************************************************************************)
(* Properties of the Schema Simplifier                                     *)
(***************************************************************************)
\* The named schemas of a document (components.schemas), as a function.
NamedSchemas(doc) ==
    IF Has(doc, "components")
          /\ Has(Get(doc, "components"), "schemas")
          /\ is_object(Get(Get(doc, "components"), "schemas"))
    THEN Get(Get(doc, "components"), "schemas")[2]
    ELSE EmptyMap

CompositionKeys == {"allOf", "oneOf", "anyOf"}

\* The Schema Nodes directly under a node: property schemas, the items
\* schema, an object additionalProperties, and composition list members.
ChildNodes(v) ==
    IF ~is_object(v) THEN {}
    ELSE (IF Has(v, "properties") /\ is_object(Get(v, "properties"))
          THEN {Get(v, "properties")[2][k] : k \in DOMAIN Get(v, "properties")[2]}
          ELSE {})
         \cup (IF Has(v, "items") THEN {Get(v, "items")} ELSE {})
         \cup (IF Has(v, "additionalProperties") /\ is_object(Get(v, "additionalProperties"))
               THEN {Get(v, "additionalProperties")}
               ELSE {})
         \cup UNION {IF HasList(v, kw)
                     THEN {Get(v, kw)[2][i] : i \in 1..Len(Get(v, kw)[2])}
                     ELSE {} : kw \in CompositionKeys}

RECURSIVE SchemaNodes(_)
SchemaNodes(v) == {v} \cup UNION {SchemaNodes(c) : c \in ChildNodes(v)}

\* Every Schema Node of every named schema of the patched document.
OutputNodes == UNION {SchemaNodes(NamedSchemas(spec_value)[name]) :
                         name \in DOMAIN NamedSchemas(spec_value)}

\* C1: after simplification no Schema Node of a named schema holds an allOf,
\* oneOf or anyOf key, whatever the key's value (a list, an empty list, a
\* non-list).
C1_NoCompositionSurvives ==
    pc = "simplified" =>
        \A n \in OutputNodes : \A kw \in CompositionKeys : ~Has(n, kw)

\* C2: after simplification every Schema Node with an enum key has none of
\* maxLength, minLength, pattern, format, and has a type key.
C2_EnumPurity ==
    pc = "simplified" =>
        \A n \in OutputNodes :
            Has(n, "enum") =>
                /\ ~Has(n, "maxLength") /\ ~Has(n, "minLength")
                /\ ~Has(n, "pattern") /\ ~Has(n, "format")
                /\ Has(n, "type")

\* C2 witness: an allOf whose accumulator copied enum and format from a
\* member and whose merged property is an enum node too; both came out pure.
C2_Witness ==
    /\ pc = "simplified"
    /\ "S" \in DOMAIN NamedSchemas(schema_content)
    /\ NamedSchemas(schema_content)["S"] = Obj("allOf" :> Arr(<<EnumBare, PropsA>>))
    /\ LET out == NamedSchemas(spec_value)["S"]
       IN /\ Has(out, "enum") /\ Has(out, "type") /\ ~Has(out, "format")
          /\ Has(Get(Get(out, "properties"), "x"), "enum")

(***************************************************************************)
(* Properties of the Operation-ID Synthesizer                              *)
(***************************************************************************)
\* The path items of a document, as a function from path template to item.
PathsOf(doc) ==
    IF Has(doc, "paths") /\ is_object(Get(doc, "paths")) THEN Get(doc, "paths")[2]
    ELSE EmptyMap

\* The Operations: <<path, method>> with an object under a method key.
Operations(doc) ==
    UNION {IF is_object(PathsOf(doc)[p])
           THEN {<<p, m>> : m \in {k \in DOMAIN PathsOf(doc)[p][2] :
                                       k \in Methods /\ is_object(PathsOf(doc)[p][2][k])}}
           ELSE {} : p \in DOMAIN PathsOf(doc)}

OperationAt(doc, o) == PathsOf(doc)[o[1]][2][o[2]]

\* The operationIds a document declares are pairwise distinct.
DistinctIds(doc) ==
    \A o1, o2 \in Operations(doc) :
        (/\ o1 # o2
         /\ Has(OperationAt(doc, o1), "operationId")
         /\ Has(OperationAt(doc, o2), "operationId"))
            => Get(OperationAt(doc, o1), "operationId") # Get(OperationAt(doc, o2), "operationId")

\* C3: when the document's own operationIds are pairwise distinct, after the
\* synthesis pass every Operation has an operationId and no two Operations
\* share one.
C3_UniqueOperationIds ==
    (pc = "ids_added" /\ DistinctIds(schema_content)) =>
        /\ \A o \in Operations(spec_value) : Has(OperationAt(spec_value, o), "operationId")
        /\ DistinctIds(spec_value)

\* What one character of a path template contributes to the slug.
SlugChar(c) ==
    CASE c = "/" -> <<"_">>
      [] c = "-" -> <<"_">>
      [] c = "{" -> <<>>
      [] c = "}" -> <<>>
      [] OTHER -> <<c>>

\* The slug of s[from..Len(s)], character by character.
RECURSIVE SlugFrom(_, _)
SlugFrom(s, from) ==
    IF from > Len(s) THEN <<>> ELSE SlugChar(s[from]) \o SlugFrom(s, from + 1)

\* How many '/' characters s starts with.
LeadingSlashes(s) ==
    CHOOSE k \in 0..Len(s) :
        /\ \A i \in 1..k : s[i] = "/"
        /\ k < Len(s) => s[k + 1] # "/"

\* The Operations of the parsed document that have no operationId.
Unidentified == {o \in Operations(schema_content) :
                    ~Has(OperationAt(schema_content, o), "operationId")}

\* C4 as stated: the synthesized id is method + "_" + slug(path), the slug
\* being the path with its one leading '/' stripped, each remaining '/' and
\* each '-' turned into '_', and '{' and '}' removed.
C4_SlugStripsOneSlash ==
    pc = "ids_added" =>
        \A o \in Unidentified :
            Get(OperationAt(spec_value, o), "operationId")
                = Str(MethodChars(o[2]) \o <<"_">>
                      \o SlugFrom(o[1], IF o[1] # <<>> /\ o[1][1] = "/" THEN 2 ELSE 1))

\* C4 amended: as above, with every leading '/' stripped.
C4_SlugStripsLeadingSlashes ==
    pc = "ids_added" =>
        \A o \in Unidentified :
            Get(OperationAt(spec_value, o), "operationId")
                = Str(MethodChars(o[2]) \o <<"_">>
                      \o SlugFrom(o[1], LeadingSlashes(o[1]) + 1))

\* C4 witness: get on /zones/{zone_id}/dns_records got
\* get_zones_zone_id_dns_records, beside a path with two leading slashes.
C4_Witness ==
    /\ pc = "ids_added"
    /\ <<ZonesPath, "get">> \in Unidentified
    /\ <<<<"/", "/", "a">>, "get">> \in Unidentified
    /\ Get(OperationAt(spec_value, <<ZonesPath, "get">>), "operationId")
          = Str(<<"g", "e", "t", "_", "z", "o", "n", "e", "s", "_", "z", "o", "n", "e", "_",
                  "i", "d", "_", "d", "n", "s", "_", "r", "e", "c", "o", "r", "d", "s">>)

\* C6: the synthesis pass only inserts operationId into object entries under
\* a method key that lack one; everything else of the document is as parsed.
C6_SynthesizerFrame ==
    pc = "ids_added" =>
        LET old == schema_content
            new == spec_value
        IN /\ is_object(old) /\ is_object(new)
           /\ DOMAIN new[2] = DOMAIN old[2]
           /\ \A k \in DOMAIN old[2] \ {"paths"} : new[2][k] = old[2][k]
           /\ (Has(old, "paths") /\ ~is_object(Get(old, "paths")))
                 => Get(new, "paths") = Get(old, "paths")
           /\ DOMAIN PathsOf(new) = DOMAIN PathsOf(old)
           /\ \A p \in DOMAIN PathsOf(old) :
                 LET oi == PathsOf(old)[p]
                     ni == PathsOf(new)[p]
                 IN IF ~is_object(oi) THEN ni = oi
                    ELSE /\ is_object(ni)
                         /\ DOMAIN ni[2] = DOMAIN oi[2]
                         /\ \A k \in DOMAIN oi[2] :
                               IF <<p, k>> \in Unidentified
                               THEN /\ is_object(ni[2][k])
                                    /\ DOMAIN ni[2][k][2]
                                          = DOMAIN oi[2][k][2] \cup {"operationId"}
                                    /\ \A j \in DOMAIN oi[2][k][2] :
                                          ni[2][k][2][j] = oi[2][k][2][j]
                               ELSE ni[2][k] = oi[2][k]

\* C6 witness: on /a a get that keeps listZones, a post that gets an id and
\* a parameters sibling; on another path a GET key and non-method siblings.
C6_Witness ==
    /\ pc = "ids_added"
    /\ <<"/", "a">> \in DOMAIN PathsOf(schema_content)
    /\ LET oi == PathsOf(schema_content)[<<"/", "a">>]
           ni == PathsOf(spec_value)[<<"/", "a">>]
       IN /\ Has(oi, "get") /\ Has(Get(oi, "get"), "operationId")
          /\ Get(Get(ni, "get"), "operationId") = ListZones
          /\ Has(oi, "post") /\ ~Has(Get(oi, "post"), "operationId")
          /\ Has(Get(ni, "post"), "operationId")
          /\ Has(oi, "parameters") /\ Get(ni, "parameters") = Parameters
    /\ \E p \in DOMAIN PathsOf(spec_value) :
          /\ Has(PathsOf(spec_value)[p], "GET")
          /\ Get(PathsOf(spec_value)[p], "GET") = Obj(EmptyMap)

\* C7: running the synthesis pass on its own output changes nothing.
C7_SynthesisIdempotent ==
    pc = "ids_added" => AddOperationIds(spec_value) = spec_value

\* C7 witness: a document to which the first run added ids while another of
\* its operations kept the id it had.
C7_Witness ==
    /\ pc = "ids_added"
    /\ spec_value # schema_content
    /\ Unidentified # {}
    /\ \E o \in Operations(schema_content) : o \notin Unidentified

(***************************************************************************)
(* The composition rules, on the named schemas                             *)
(***************************************************************************)
\* The names of the parsed schemas, and a schema before and after.
SchemaNames == DOMAIN NamedSchemas(schema_content)
Before(name) == NamedSchemas(schema_content)[name]
After(name) == NamedSchemas(spec_value)[name]

ListOf(schema, kw) == Get(schema, kw)[2]

\* A node without its oneOf and anyOf keys.
WithoutAlternatives(schema) ==
    Obj([k \in DOMAIN schema[2] \ {"oneOf", "anyOf"} |-> schema[2][k]])

\* C8 as stated: a node with no allOf list that declares a oneOf list becomes
\* the simplified first member of that list; with no allOf list and no oneOf,
\* a node that declares an anyOf list becomes the simplified first member of
\* the anyOf list; with an allOf list, oneOf and anyOf play no part.
C8_FirstAlternativeOfAnyList ==
    pc = "simplified" =>
        \A name \in SchemaNames :
            LET s == Before(name)
            IN /\ (~HasList(s, "allOf") /\ HasList(s, "oneOf"))
                     => /\ ListOf(s, "oneOf") # <<>>
                        /\ After(name) = simplify_schema(ListOf(s, "oneOf")[1])
               /\ (~HasList(s, "allOf") /\ ~Has(s, "oneOf") /\ HasList(s, "anyOf"))
                     => /\ ListOf(s, "anyOf") # <<>>
                        /\ After(name) = simplify_schema(ListOf(s, "anyOf")[1])
               /\ HasList(s, "allOf")
                     => After(name) = simplify_schema(WithoutAlternatives(s))

\* C8 amended: the same for lists that are not empty: a non-empty oneOf list
\* decides, else a non-empty anyOf list does.
C8_FirstAlternativeOfNonEmptyList ==
    pc = "simplified" =>
        \A name \in SchemaNames :
            LET s == Before(name)
            IN /\ (~HasList(s, "allOf") /\ HasList(s, "oneOf") /\ ListOf(s, "oneOf") # <<>>)
                     => After(name) = simplify_schema(ListOf(s, "oneOf")[1])
               /\ (/\ ~HasList(s, "allOf")
                   /\ ~(HasList(s, "oneOf") /\ ListOf(s, "oneOf") # <<>>)
                   /\ HasList(s, "anyOf") /\ ListOf(s, "anyOf") # <<>>)
                     => After(name) = simplify_schema(ListOf(s, "anyOf")[1])
               /\ HasList(s, "allOf")
                     => After(name) = simplify_schema(WithoutAlternatives(s))

\* C8 witness: {oneOf: [{type: integer}, {type: string}]} became
\* {type: integer}.
C8_Witness ==
    /\ pc = "simplified"
    /\ "B" \in SchemaNames
    /\ Before("B") = Obj("oneOf" :> Arr(<<TInteger, TString>>))
    /\ After("B") = TInteger

\* A node that holds a $ref pointer and nothing else.
BareReference(v) == is_object(v) /\ DOMAIN v[2] = {"$ref"}

ObjectNode == Obj("type" :> Str(ObjectLit))

\* The first member of a list that is not a bare reference, else {type: object}.
FirstNotBare(list) ==
    IF \E i \in 1..Len(list) : ~BareReference(list[i])
    THEN list[CHOOSE i \in 1..Len(list) :
                 ~BareReference(list[i]) /\ \A j \in 1..(i - 1) : BareReference(list[j])]
    ELSE ObjectNode

\* The first member of a list that has no $ref key, else {type: object}.
FirstWithoutRef(list) ==
    IF \E i \in 1..Len(list) : ~Has(list[i], "$ref")
    THEN list[CHOOSE i \in 1..Len(list) :
                 ~Has(list[i], "$ref") /\ \A j \in 1..(i - 1) : Has(list[j], "$ref")]
    ELSE ObjectNode

\* The accumulator has at least one property.
HasAProperty(acc) == Get(acc, "properties")[2] # EmptyMap

\* C10 as stated: a node with an allOf list becomes the simplified
\* accumulator when the fold left it a property, and otherwise the simplified
\* first member that is not a bare reference, or {type: object} without one.
C10_AllOfFallsBackToFirstNotBare ==
    pc = "simplified" =>
        \A name \in SchemaNames :
            HasList(Before(name), "allOf") =>
                LET list == ListOf(Before(name), "allOf")
                    acc == MergeAll(NewMerged, list)
                IN After(name) = simplify_schema(IF HasAProperty(acc) THEN acc
                                                 ELSE FirstNotBare(list))

\* C10 amended: the fallback is the first member that has no $ref key.
C10_AllOfFallsBackToFirstWithoutRef ==
    pc = "simplified" =>
        \A name \in SchemaNames :
            HasList(Before(name), "allOf") =>
                LET list == ListOf(Before(name), "allOf")
                    acc == MergeAll(NewMerged, list)
                IN After(name) = simplify_schema(IF HasAProperty(acc) THEN acc
                                                 ELSE FirstWithoutRef(list))

\* C10 witness: allOf [reference, {type: integer}] with oneOf and anyOf
\* siblings fell back to {type: integer}.
C10_Witness ==
    /\ pc = "simplified"
    /\ "S" \in SchemaNames
    /\ Before("S") = Obj(("allOf" :> Arr(<<Ref, TInteger>>)) @@ Siblings)
    /\ After("S") = TInteger

(***************************************************************************)
(* Properties of the Schema Merger, on the allOf loop                      *)
(***************************************************************************)
\* The sources folded so far are all_of[1..Folded].
Folded == idx - 1

\* Source i declares property name p / a required list / top-level key k.
DeclaresProperty(i, p) ==
    /\ Has(all_of[i], "properties") /\ is_object(Get(all_of[i], "properties"))
    /\ p \in DOMAIN Get(all_of[i], "properties")[2]
DeclaresRequired(i) == HasList(all_of[i], "required")
DeclaresKey(i, k) == Has(all_of[i], k)

PropertyNames == UNION {IF Has(all_of[i], "properties") /\ is_object(Get(all_of[i], "properties"))
                        THEN DOMAIN Get(all_of[i], "properties")[2]
                        ELSE {} : i \in 1..Folded}
OtherKeys == UNION {IF is_object(all_of[i]) THEN DOMAIN all_of[i][2] ELSE {} : i \in 1..Folded}
                 \ {"properties", "required"}

\* The required lists of the first n sources, one after the other.
RECURSIVE RequiredUpTo(_)
RequiredUpTo(n) ==
    IF n = 0 THEN <<>>
    ELSE RequiredUpTo(n - 1) \o (IF DeclaresRequired(n) THEN Get(all_of[n], "required")[2]
                                 ELSE <<>>)

FirstIndex(seq, x) == CHOOSE i \in 1..Len(seq) : seq[i] = x /\ \A j \in 1..(i - 1) : seq[j] # x

\* r is seq without its repeats, in first-seen order.
IsOrderedUnion(r, seq) ==
    /\ {r[i] : i \in 1..Len(r)} = {seq[i] : i \in 1..Len(seq)}
    /\ \A i, j \in 1..Len(r) : i < j => FirstIndex(seq, r[i]) < FirstIndex(seq, r[j])

\* C5: folding sources without $ref in list order gives, per property name,
\* the value of the LAST source declaring it; a required list that is the
\* repeat-free union of the sources' lists in first-seen order; and for any
\* other key the accumulator's own value (type stays "object") or else the
\* value of the FIRST source declaring it.
C5_MergePrecedence ==
    (pc = "allOf" /\ \A i \in 1..Folded : ~Has(all_of[i], "$ref")) =>
        /\ is_object(merged)
        /\ DOMAIN Get(merged, "properties")[2] = PropertyNames
        /\ \A p \in PropertyNames :
              LET last == CHOOSE i \in 1..Folded :
                              DeclaresProperty(i, p)
                                  /\ \A j \in (i + 1)..Folded : ~DeclaresProperty(j, p)
              IN Get(merged, "properties")[2][p] = Get(all_of[last], "properties")[2][p]
        /\ IF \E i \in 1..Folded : DeclaresRequired(i)
           THEN /\ HasList(merged, "required")
                /\ IsOrderedUnion(Get(merged, "required")[2], RequiredUpTo(Folded))
           ELSE ~Has(merged, "required")
        /\ DOMAIN merged[2] \ {"properties", "required"} = OtherKeys \cup {"type"}
        /\ Get(merged, "type") = Str(ObjectLit)
        /\ \A k \in OtherKeys \ {"type"} :
              LET first == CHOOSE i \in 1..Folded :
                               DeclaresKey(i, k) /\ \A j \in 1..(i - 1) : ~DeclaresKey(j, k)
              IN Get(merged, k) = Get(all_of[first], k)

\* C5 witness: {properties: {x: enum}, required: [a]} then {type: string,
\* description, properties: {x: integer, y}, required: [b, a]} folded.
C5_Witness ==
    /\ pc = "allOf"
    /\ all_of = <<PropsA, PropsB>>
    /\ idx = 3
    /\ Get(Get(merged, "properties"), "x") = TInteger
    /\ Get(merged, "required") = Arr(<<Word("a"), Word("b")>>)
    /\ Get(merged, "type") = Str(ObjectLit)
    /\ Get(merged, "description") = Word("d")

\* merged' holds everything the object source declares: its properties with
\* its values, the entries of its required list, its other keys.
FoldedIn(source) ==
    is_object(source) =>
        /\ (Has(source, "properties") /\ is_object(Get(source, "properties")))
              => \A p \in DOMAIN Get(source, "properties")[2] :
                    /\ p \in DOMAIN Get(merged', "properties")[2]
                    /\ Get(merged', "properties")[2][p] = Get(source, "properties")[2][p]
        /\ HasList(source, "required")
              => /\ HasList(merged', "required")
                 /\ \A i \in 1..Len(Get(source, "required")[2]) :
                       Contains(Get(merged', "required")[2], Get(source, "required")[2][i])
        /\ \A k \in DOMAIN source[2] \ {"properties", "required"} : k \in DOMAIN merged'[2]

\* C9 as stated: a step of the loop leaves the accumulator unchanged when
\* the source is a bare reference, and only then skips: any other source,
\* also one with $ref beside other keys, is folded in.
C9_SkipsOnlyBareReferences ==
    [][idx' = idx + 1 =>
          IF BareReference(all_of[idx]) THEN merged' = merged ELSE FoldedIn(all_of[idx])]_vars

\* C9 amended: the accumulator is unchanged when the source has a $ref key,
\* alone or beside other keys; a source without $ref is folded in.
C9_SkipsEverySourceWithRef ==
    [][idx' = idx + 1 =>
          IF Has(all_of[idx], "$ref") THEN merged' = merged ELSE FoldedIn(all_of[idx])]_vars

\* C9 witness: after a source with properties was folded in, a source with
\* $ref beside properties, required and description left the accumulator as
\* it was.
C9_Witness ==
    /\ pc = "allOf"
    /\ idx = 3
    /\ all_of = <<PropsA, RefPlus>>
    /\ merged = merge_into(NewMerged, PropsA)
    /\ merged # NewMerged
    /\ ~Has(merged, "$ref") /\ ~Has(merged, "description")

=============================================================================
